---- MODULE Spec2Model ----
(***************************************************************************)
(* A model of the aichatbot server functions (src/src/api.rs), the SQL     *)
(* store they use (src/src/database.rs), the mocked AI service             *)
(* (src/src/ai_service.rs) and the data types (src/src/models.rs).         *)
(*                                                                         *)
(* A Rust String is a sequence of characters, each a one-character TLA+    *)
(* string; str::len() counts UTF-8 bytes, so a character carries its byte  *)
(* width.  A uuid is a fresh natural number.  Utc::now() is a reading of a *)
(* clock that never goes back: a handler starts after the one before it,   *)
(* and two readings within one handler may give the same value.            *)
(***************************************************************************)
EXTENDS Integers, Sequences, FiniteSets, TLC

VARIABLES
    chat_sessions,        \* rows of table chat_sessions
    messages,             \* rows of table messages
    user_memory,          \* rows of table user_memory
    file_attachments,     \* rows of table file_attachments
    suggested_questions,  \* rows of table suggested_questions
    clients,              \* AIService.clients: the providers that have an entry
    now,                  \* the last reading of the clock
    nextId,               \* the next fresh uuid
    ret,                  \* the last server function called, its arguments and result
    lastChat,             \* the last AIService::chat call: its arguments, whether it
                          \* returned a response, and savedLog when it was made
    createdWith,          \* session id -> the arguments create_session was called with
    savedLog,             \* the (key, value) pairs of the completed save_memory calls
    log,                  \* the AIService calls made directly, with their results
    ui,                   \* the chat box: its signals and the value of its send action
    tasks,                \* the chat box's requests, each waiting for the server or
                          \* for its response to be received
    config,               \* AIService.config: the providers whose API key is Some
    clientsLock,          \* the RwLock of AIService.clients: the calls holding it
    chatPc,               \* the concurrent AIService::chat calls: where each one is
    switcher              \* the model switcher: its signals and its pending requests

dbVars == <<chat_sessions, messages, user_memory, file_attachments, suggested_questions>>
vars == <<chat_sessions, messages, user_memory, file_attachments, suggested_questions,
          clients, now, nextId, ret, lastChat, createdWith, savedLog, log, ui, tasks,
          config, clientsLock, chatPc, switcher>>
serviceVars == <<config, clientsLock, chatPc>>

----------------------------------------------------------------------------
(* Bounds of the model. *)

\* The number of create_session and send_message calls that change the store,
\* and the number of save_memory calls.
MaxCalls == 3
MaxSaves == 2

\* The number of AIService calls kept in log.
MaxLog == 2

\* The number of words of a reply given to extract_topics.
MaxWords == 6

\* The number of create_session and send_message requests the chat box makes.
MaxRequests == 3

\* The number of files given to build_content_with_files.
MaxFiles == 2

----------------------------------------------------------------------------
(* Strings. *)

\* Characters that take two bytes in UTF-8.
TwoByteChars == {"é"}

ByteLen(c) == IF c \in TwoByteChars THEN 2 ELSE 1

RECURSIVE StrLen(_)
\* str::len(): the length in bytes.
StrLen(s) == IF s = <<>> THEN 0 ELSE ByteLen(Head(s)) + StrLen(Tail(s))

\* char::is_whitespace for the characters used here.
IsWhitespace(c) == c \in {" ", "\n", "\t"}

\* The positions of s where a word starts: a non-whitespace character that is
\* the first of s or follows a whitespace character.
WordStarts(s) ==
    {i \in 1..Len(s) : ~IsWhitespace(s[i]) /\ (i = 1 \/ IsWhitespace(s[i - 1]))}

\* The positions of s where a word ends: a non-whitespace character that is the
\* last of s or comes before a whitespace character.
WordEnds(s) ==
    {i \in 1..Len(s) : ~IsWhitespace(s[i]) /\ (i = Len(s) \/ IsWhitespace(s[i + 1]))}

\* The k-th smallest element of a set of numbers.
Nth(S, k) == CHOOSE i \in S : Cardinality({j \in S : j <= i}) = k

\* str::split_whitespace(): the maximal runs of non-whitespace characters, in order.
SplitWhitespace(s) ==
    LET starts == WordStarts(s)
        ends == WordEnds(s)
    IN  [k \in 1..Cardinality(starts) |-> SubSeq(s, Nth(starts, k), Nth(ends, k))]

\* Iterator::take(n) / Vec::truncate(n).
Take(seq, n) == SubSeq(seq, 1, IF Len(seq) < n THEN Len(seq) ELSE n)

EndsWith(s, suffix) ==
    /\ Len(suffix) <= Len(s)
    /\ SubSeq(s, Len(s) - Len(suffix) + 1, Len(s)) = suffix

\* The lines of s, split at every "\n".
Lines(s) ==
    LET breaks == {i \in 1..Len(s) : s[i] = "\n"}
        n == Cardinality(breaks)
        cut(k) == IF k = 0 THEN 0 ELSE IF k = n + 1 THEN Len(s) + 1 ELSE Nth(breaks, k)
    IN  [k \in 1..(n + 1) |-> SubSeq(s, cut(k - 1) + 1, cut(k) - 1)]

Range(seq) == {seq[i] : i \in 1..Len(seq)}

NoneVal == [some |-> FALSE]
Some(v) == [some |-> TRUE, val |-> v]

Min(a, b) == IF a < b THEN a ELSE b

----------------------------------------------------------------------------
(* String literals of the source. *)

\* "This is a mock response from "
MockPrefix ==
    <<"T","h","i","s"," ","i","s"," ","a"," ","m","o","c","k"," ","r","e","s","p","o","n","s",
      "e"," ","f","r","o","m"," ">>
\* " using model "
MockUsing ==
    <<" ","u","s","i","n","g"," ","m","o","d","e","l"," ">>
\* ". You said: "
MockSaid ==
    <<"."," ","Y","o","u"," ","s","a","i","d",":"," ">>
\* "This is a mock reasoning process."
MockReasoning ==
    <<"T","h","i","s"," ","i","s"," ","a"," ","m","o","c","k"," ","r","e","a","s","o","n","i",
      "n","g"," ","p","r","o","c","e","s","s",".">>
\* "Tell me more about "
TellMeMore ==
    <<"T","e","l","l"," ","m","e"," ","m","o","r","e"," ","a","b","o","u","t"," ">>
\* "Can you explain that in simpler terms?"
GenericSimpler ==
    <<"C","a","n"," ","y","o","u"," ","e","x","p","l","a","i","n"," ","t","h","a","t"," ","i",
      "n"," ","s","i","m","p","l","e","r"," ","t","e","r","m","s","?">>
\* "What are the pros and cons of this approach?"
GenericProsCons ==
    <<"W","h","a","t"," ","a","r","e"," ","t","h","e"," ","p","r","o","s"," ","a","n","d"," ",
      "c","o","n","s"," ","o","f"," ","t","h","i","s"," ","a","p","p","r","o","a","c","h","?">>
\* "How does this compare to other solutions?"
GenericCompare ==
    <<"H","o","w"," ","d","o","e","s"," ","t","h","i","s"," ","c","o","m","p","a","r","e"," ",
      "t","o"," ","o","t","h","e","r"," ","s","o","l","u","t","i","o","n","s","?">>
\* "You are a helpful AI assistant. "
PromptHead ==
    <<"Y","o","u"," ","a","r","e"," ","a"," ","h","e","l","p","f","u","l"," ","A","I"," ","a",
      "s","s","i","s","t","a","n","t","."," ">>
\* "\n\nUser context and preferences:\n"
PromptMemoryHead ==
    <<"\n","\n","U","s","e","r"," ","c","o","n","t","e","x","t"," ","a","n","d"," ","p","r","e",
      "f","e","r","e","n","c","e","s",":","\n">>
\* "\nPlease remember and use this information in our conversation.\n"
PromptMemoryTail ==
    <<"\n","P","l","e","a","s","e"," ","r","e","m","e","m","b","e","r"," ","a","n","d"," ","u",
      "s","e"," ","t","h","i","s"," ","i","n","f","o","r","m","a","t","i","o","n"," ","i","n",
      " ","o","u","r"," ","c","o","n","v","e","r","s","a","t","i","o","n",".","\n">>
\* "\nAlways provide helpful, accurate, and engaging responses. If you're not sure about something, say so. You can process images, PDFs, and other files when provided."
PromptTail ==
    <<"\n","A","l","w","a","y","s"," ","p","r","o","v","i","d","e"," ","h","e","l","p","f","u",
      "l",","," ","a","c","c","u","r","a","t","e",","," ","a","n","d"," ","e","n","g","a","g",
      "i","n","g"," ","r","e","s","p","o","n","s","e","s","."," ","I","f"," ","y","o","u","'",
      "r","e"," ","n","o","t"," ","s","u","r","e"," ","a","b","o","u","t"," ","s","o","m","e",
      "t","h","i","n","g",","," ","s","a","y"," ","s","o","."," ","Y","o","u"," ","c","a","n",
      " ","p","r","o","c","e","s","s"," ","i","m","a","g","e","s",","," ","P","D","F","s",",",
      " ","a","n","d"," ","o","t","h","e","r"," ","f","i","l","e","s"," ","w","h","e","n"," ",
      "p","r","o","v","i","d","e","d",".">>

\* "\n\n[Image: "
ImageOpen ==
    <<"\n","\n","[","I","m","a","g","e",":"," ">>
\* "\n\n[PDF Content from "
PdfOpen ==
    <<"\n","\n","[","P","D","F"," ","C","o","n","t","e","n","t"," ","f","r","o","m"," ">>
\* "\n\n[Text from "
TextOpen ==
    <<"\n","\n","[","T","e","x","t"," ","f","r","o","m"," ">>
\* "\n\n[File: "
FileOpen ==
    <<"\n","\n","[","F","i","l","e",":"," ">>
\* "]\n"
BlockClose ==
    <<"]","\n">>
\* " - "
FileDash ==
    <<" ","-"," ">>
\* "data:image/"
DataImage ==
    <<"d","a","t","a",":","i","m","a","g","e","/">>
\* ";base64,"
Base64Comma ==
    <<";","b","a","s","e","6","4",",">>
\* "jpeg"
Jpeg ==
    <<"j","p","e","g">>
\* "[PDF content extracted]"
PdfPlaceholder ==
    <<"[","P","D","F"," ","c","o","n","t","e","n","t"," ","e","x","t","r","a","c","t","e","d",
      "]">>
\* "image/"
ContentTypeImage ==
    <<"i","m","a","g","e","/">>
\* "application/pdf"
ContentTypePdf ==
    <<"a","p","p","l","i","c","a","t","i","o","n","/","p","d","f">>
\* "text/"
ContentTypeText ==
    <<"t","e","x","t","/">>
\* "ABCDEFGHIJKLMNOPQRSTUVWXYZabcdefghijklmnopqrstuvwxyz0123456789+/"
Base64Alphabet ==
    <<"A","B","C","D","E","F","G","H","I","J","K","L","M","N","O","P","Q","R","S","T","U","V",
      "W","X","Y","Z","a","b","c","d","e","f","g","h","i","j","k","l","m","n","o","p","q","r",
      "s","t","u","v","w","x","y","z","0","1","2","3","4","5","6","7","8","9","+","/">>
\* the characters of the bytes 32 to 95
AsciiUpper ==
    <<" ","!","\"","#","$","%","&","'","(",")","*","+",",","-",".","/","0","1","2","3","4","5",
      "6","7","8","9",":",";","<","=",">","?","@","A","B","C","D","E","F","G","H","I","J","K",
      "L","M","N","O","P","Q","R","S","T","U","V","W","X","Y","Z","[","\\","]","^","_">>
\* the characters of the bytes 97 to 126
AsciiLower ==
    <<"a","b","c","d","e","f","g","h","i","j","k","l","m","n","o","p","q","r","s","t","u","v",
      "w","x","y","z","{","|","}","~">>
\* "uploads/"
UploadsDir ==
    <<"u","p","l","o","a","d","s","/">>

----------------------------------------------------------------------------
(* models.rs *)

\* enum AIProvider
AIProviders == {"Ollama", "OpenAI", "Anthropic", "Gemini", "OpenRouter"}

\* impl Display for AIProvider
AIProviderToString(p) ==
    CASE p = "Ollama" -> <<"o","l","l","a","m","a">>
      [] p = "OpenAI" -> <<"o","p","e","n","a","i">>
      [] p = "Anthropic" -> <<"a","n","t","h","r","o","p","i","c">>
      [] p = "Gemini" -> <<"g","e","m","i","n","i">>
      [] p = "OpenRouter" -> <<"o","p","e","n","r","o","u","t","e","r">>

\* A From<String> that lost the "openrouter" arm.
AIProviderFromStringNoOpenRouter(s) ==
    CASE s = <<"o","l","l","a","m","a">> -> "Ollama"
      [] s = <<"o","p","e","n","a","i">> -> "OpenAI"
      [] s = <<"a","n","t","h","r","o","p","i","c">> -> "Anthropic"
      [] s = <<"g","e","m","i","n","i">> -> "Gemini"
      [] OTHER -> "Ollama"

\* impl From<String> for AIProvider
AIProviderFromString(s) ==
    CASE s = <<"o","l","l","a","m","a">> -> "Ollama"
      [] s = <<"o","p","e","n","a","i">> -> "OpenAI"
      [] s = <<"a","n","t","h","r","o","p","i","c">> -> "Anthropic"
      [] s = <<"g","e","m","i","n","i">> -> "Gemini"
      [] s = <<"o","p","e","n","r","o","u","t","e","r">> -> "OpenRouter"
      [] OTHER -> "Ollama"

\* enum MessageRole
MessageRoles == {"User", "Assistant", "System"}

\* A Display that writes the names of the variants, as Debug does.
MessageRoleToStringDebug(r) ==
    CASE r = "User" -> <<"U","s","e","r">>
      [] r = "Assistant" -> <<"A","s","s","i","s","t","a","n","t">>
      [] r = "System" -> <<"S","y","s","t","e","m">>

\* impl Display for MessageRole
MessageRoleToString(r) ==
    CASE r = "User" -> <<"u","s","e","r">>
      [] r = "Assistant" -> <<"a","s","s","i","s","t","a","n","t">>
      [] r = "System" -> <<"s","y","s","t","e","m">>

\* impl From<String> for MessageRole
MessageRoleFromString(s) ==
    CASE s = <<"u","s","e","r">> -> "User"
      [] s = <<"a","s","s","i","s","t","a","n","t">> -> "Assistant"
      [] s = <<"s","y","s","t","e","m">> -> "System"
      [] OTHER -> "User"

\* ChatSession::new, with the fresh uuid and the clock reading it draws.
ChatSessionNew(id, t, user_id, model_provider, model_name) ==
    [id |-> id, user_id |-> user_id, title |-> NoneVal,
     model_provider |-> AIProviderToString(model_provider), model_name |-> model_name,
     created_at |-> t, updated_at |-> t]

\* Message::new
MessageNew(id, t, session_id, role, content) ==
    [id |-> id, session_id |-> session_id, role |-> role, content |-> content,
     reasoning |-> NoneVal, model_provider |-> NoneVal, model_name |-> NoneVal,
     tokens_used |-> NoneVal, created_at |-> t]

\* f64 values are kept in tenths: 1.0 is 10.
ConfidenceOne == 10

\* UserMemory::new
UserMemoryNew(id, t, user_id, memory_key, memory_value) ==
    [id |-> id, user_id |-> user_id, memory_key |-> memory_key,
     memory_value |-> memory_value, confidence |-> ConfidenceOne,
     created_at |-> t, updated_at |-> t]

----------------------------------------------------------------------------
(* database.rs: the statements each method runs, on tables that are sets of rows. *)

\* ORDER BY created_at ASC
ByCreatedAtAsc(a, b) == a.created_at < b.created_at

\* ORDER BY confidence DESC, updated_at DESC
ByConfidenceDescUpdatedDesc(a, b) ==
    \/ a.confidence > b.confidence
    \/ a.confidence = b.confidence /\ a.updated_at > b.updated_at

\* An ORDER BY that puts the older of two equally relevant rows first.
ByRelevanceDescCreatedAsc(a, b) ==
    \/ a.relevance_score > b.relevance_score
    \/ a.relevance_score = b.relevance_score /\ a.created_at < b.created_at

\* ORDER BY relevance_score DESC, created_at DESC
ByRelevanceDescCreatedDesc(a, b) ==
    \/ a.relevance_score > b.relevance_score
    \/ a.relevance_score = b.relevance_score /\ a.created_at > b.created_at

\* Row a comes before row b by the ORDER BY terms of the statement.
OrderedBefore(order, a, b) ==
    CASE order = "created_at ASC" -> ByCreatedAtAsc(a, b)
      [] order = "confidence DESC, updated_at DESC" -> ByConfidenceDescUpdatedDesc(a, b)
      [] order = "relevance_score DESC, created_at DESC" -> ByRelevanceDescCreatedDesc(a, b)

RECURSIVE SortedPrefixes(_, _, _)
\* What ORDER BY order LIMIT n may return for the rows S: every sequence of
\* Min(n, |S|) rows in which no row comes after one that the terms put after it.
\* Rows that the ORDER BY terms do not tell apart come in any order.
SortedPrefixes(S, order, n) ==
    IF S = {} \/ n = 0 THEN {<<>>}
    ELSE UNION {{<<r>> \o rest : rest \in SortedPrefixes(S \ {r}, order, n - 1)} :
                r \in {x \in S : \A y \in S : ~OrderedBefore(order, y, x)}}

\* ORDER BY without LIMIT.
Sorted(S, order) == SortedPrefixes(S, order, Cardinality(S))

\* Database::get_session: fetch_optional of SELECT ... WHERE id = ?
DbGetSession(session_id) == {s \in chat_sessions : s.id = session_id}

\* The row -> Message mapping of get_session_messages.
RowToMessage(r) == [r EXCEPT !.role = MessageRoleFromString(r.role)]

\* The Message -> row mapping of create_message: role.to_string().
MessageToRow(m) == [m EXCEPT !.role = MessageRoleToString(m.role)]

\* A WHERE clause that forgot the session.
DbSessionMessageRowsAnySession(session_id) == messages

\* SELECT ... FROM messages WHERE session_id = ?
DbSessionMessageRows(session_id) == {r \in messages : r.session_id = session_id}

\* Database::get_session_messages: the results the query may give.
DbGetSessionMessages(session_id) ==
    {[i \in 1..Len(rows) |-> RowToMessage(rows[i])] :
        rows \in Sorted(DbSessionMessageRows(session_id), "created_at ASC")}

\* Database::get_user_memory: the results the query may give.
DbGetUserMemory(user_id) ==
    Sorted({r \in user_memory : r.user_id = user_id},
           "confidence DESC, updated_at DESC")

\* Database::get_session_suggested_questions: the results the query may give.
DbGetSessionSuggestedQuestions(session_id, limit) ==
    SortedPrefixes({q \in suggested_questions : q.session_id = session_id /\ ~q.used},
                   "relevance_score DESC, created_at DESC", limit)

\* Database::get_message_attachments
DbGetMessageAttachments(message_id) ==
    {a \in file_attachments : a.message_id = message_id}

\* The uniqueness constraint of table user_memory: one row per user and key.
UserMemoryConflicts(row) ==
    {r \in user_memory : r.id = row.id \/
                         (r.user_id = row.user_id /\ r.memory_key = row.memory_key)}

\* A plain INSERT: the statement fails on a conflicting row and changes nothing.
DbSaveMemoryPlainInsert(row) ==
    IF UserMemoryConflicts(row) = {} THEN user_memory \cup {row} ELSE user_memory

\* Database::save_memory: INSERT OR REPLACE deletes the conflicting rows first.
DbSaveMemory(row) == (user_memory \ UserMemoryConflicts(row)) \cup {row}

\* An UPDATE that flips the flag instead of setting it.
DbMarkQuestionUsedToggle(question_id) ==
    {IF q.id = question_id THEN [q EXCEPT !.used = ~@] ELSE q : q \in suggested_questions}

\* Database::mark_question_used: UPDATE ... SET used = TRUE WHERE id = ?
DbMarkQuestionUsed(question_id) ==
    {IF q.id = question_id THEN [q EXCEPT !.used = TRUE] ELSE q : q \in suggested_questions}

----------------------------------------------------------------------------
(* ai_service.rs *)

\* AIService::new: the providers given an entry in clients. keys is the set of
\* providers whose API key is Some in the configuration.
AIServiceNew(keys) ==
    {p \in {"OpenAI", "Anthropic", "Gemini", "OpenRouter"} : p \in keys} \cup {"Ollama"}

RECURSIVE MemoryLines(_)
\* The loop of build_system_prompt: "- {key}: {value}\n" for each entry.
MemoryLines(mem) ==
    IF mem = <<>> THEN <<>>
    ELSE <<"-", " ">> \o Head(mem).memory_key \o <<":", " ">> \o Head(mem).memory_value
         \o <<"\n">> \o MemoryLines(Tail(mem))

\* A prompt builder that leaves the memory out.
BuildSystemPromptNoMemory(mem) == PromptHead \o PromptTail

\* AIService::build_system_prompt
BuildSystemPrompt(mem) ==
    PromptHead
    \o (IF mem # <<>> THEN PromptMemoryHead \o MemoryLines(mem) \o PromptMemoryTail
                      ELSE <<>>)
    \o PromptTail

\* base64::encode of up to three bytes, padded with "=".
Base64Group(d) ==
    LET b1 == d[1]
        b2 == IF Len(d) >= 2 THEN d[2] ELSE 0
        b3 == IF Len(d) >= 3 THEN d[3] ELSE 0
        n  == b1 * 65536 + b2 * 256 + b3
    IN  << Base64Alphabet[(n \div 262144) + 1],
           Base64Alphabet[((n \div 4096) % 64) + 1],
           IF Len(d) >= 2 THEN Base64Alphabet[((n \div 64) % 64) + 1] ELSE "=",
           IF Len(d) >= 3 THEN Base64Alphabet[(n % 64) + 1] ELSE "=" >>

RECURSIVE Base64Encode(_)
\* base64::encode
Base64Encode(d) ==
    IF d = <<>> THEN <<>>
    ELSE IF Len(d) <= 3 THEN Base64Group(d)
    ELSE Base64Group(SubSeq(d, 1, 3)) \o Base64Encode(SubSeq(d, 4, Len(d)))

RECURSIVE Utf8Decode(_)
\* String::from_utf8 for the bytes used here: tab, newline, the printable ASCII
\* bytes but the backquote, and the two-byte encoding C3 A9 of e-acute; any
\* other byte is rejected.
Utf8Decode(d) ==
    IF d = <<>> THEN [ok |-> TRUE, text |-> <<>>]
    ELSE LET b == Head(d)
             one == IF b = 9 THEN <<"\t">>
                    ELSE IF b = 10 THEN <<"\n">>
                    ELSE IF b >= 32 /\ b <= 95 THEN <<AsciiUpper[b - 31]>>
                    ELSE IF b >= 97 /\ b <= 126 THEN <<AsciiLower[b - 96]>>
                    ELSE <<>>
         IN  IF one # <<>>
             THEN LET rest == Utf8Decode(Tail(d))
                  IN  IF rest.ok THEN [ok |-> TRUE, text |-> one \o rest.text]
                      ELSE [ok |-> FALSE]
             ELSE IF b = 195 /\ Len(d) >= 2 /\ d[2] = 169
             THEN LET rest == Utf8Decode(SubSeq(d, 3, Len(d)))
                  IN  IF rest.ok THEN [ok |-> TRUE, text |-> <<"é">> \o rest.text]
                      ELSE [ok |-> FALSE]
             ELSE [ok |-> FALSE]

\* content_type.split on the slash, nth(1), unwrap_or jpeg: what follows the
\* first slash, up to the next one; jpeg when there is no slash.
SubtypeOf(content_type) ==
    LET slashes == {i \in 1..Len(content_type) : content_type[i] = "/"}
    IN  IF slashes = {} THEN Jpeg
        ELSE LET first == CHOOSE i \in slashes : \A j \in slashes : i <= j
                 later == {j \in slashes : j > first}
                 stop  == IF later = {} THEN Len(content_type) + 1
                          ELSE CHOOSE j \in later : \A k \in later : j <= k
             IN  SubSeq(content_type, first + 1, stop - 1)

\* AIService::extract_pdf_text
ExtractPdfText(data) == [ok |-> TRUE, text |-> PdfPlaceholder]

\* One arm of the match in build_content_with_files: the block appended for a file.
FileBlock(file) ==
    IF file.content_type = ContentTypeImage
    THEN ImageOpen \o file.name \o BlockClose
         \o DataImage \o SubtypeOf(file.content_type) \o Base64Comma
         \o Base64Encode(file.data) \o <<"\n">>
    ELSE IF file.content_type = ContentTypePdf
    THEN (IF ExtractPdfText(file.data).ok
          THEN PdfOpen \o file.name \o BlockClose \o ExtractPdfText(file.data).text
          ELSE <<>>)
    ELSE IF file.content_type = ContentTypeText
    THEN (IF Utf8Decode(file.data).ok
          THEN TextOpen \o file.name \o BlockClose \o Utf8Decode(file.data).text
          ELSE <<>>)
    ELSE FileOpen \o file.name \o FileDash \o file.content_type \o BlockClose

RECURSIVE BuildContentWithFiles(_, _)
\* AIService::build_content_with_files
BuildContentWithFiles(content, files) ==
    IF files = <<>> THEN content
    ELSE BuildContentWithFiles(content \o FileBlock(Head(files)), Tail(files))

\* The role strings of the match in chat.
ChatRoleString(role) ==
    CASE role = "User" -> <<"u","s","e","r">>
      [] role = "Assistant" -> <<"a","s","s","i","s","t","a","n","t">>
      [] role = "System" -> <<"s","y","s","t","e","m">>

\* A conversion that attaches the files to the last message only.
FormattedMessagesFilesOnLast(msgs, mem, files) ==
    <<[role |-> <<"s","y","s","t","e","m">>, content |-> BuildSystemPrompt(mem)]>>
    \o [i \in 1..Len(msgs) |->
          [role |-> ChatRoleString(msgs[i].role),
           content |-> IF files # <<>> /\ msgs[i].role = "User" /\ i = Len(msgs)
                       THEN BuildContentWithFiles(msgs[i].content, files)
                       ELSE msgs[i].content]]

\* formatted_messages of chat: the system prompt, then one entry per message.
FormattedMessages(msgs, mem, files) ==
    <<[role |-> <<"s","y","s","t","e","m">>, content |-> BuildSystemPrompt(mem)]>>
    \o [i \in 1..Len(msgs) |->
          [role |-> ChatRoleString(msgs[i].role),
           content |-> IF files # <<>> /\ msgs[i].role = "User"
                       THEN BuildContentWithFiles(msgs[i].content, files)
                       ELSE msgs[i].content]]

\* The minimum word length of extract_topics, and its and the question limits.
TopicMinLen == 4
TopicLimit == 5
TopicQuestions == 3
QuestionLimit == 5

\* The filter of extract_topics: word.len() > 4, a length in bytes.
IsTopicWord(word) == StrLen(word) > TopicMinLen

\* AIService::extract_topics
ExtractTopics(content) ==
    Take(SelectSeq(SplitWhitespace(content), IsTopicWord), TopicLimit)

\* AIService::generate_suggested_questions
GenerateSuggestedQuestions(response_content, msgs, mem) ==
    LET topics == Take(ExtractTopics(response_content), TopicQuestions)
    IN  Take([i \in 1..Len(topics) |-> TellMeMore \o topics[i]]
             \o <<GenericSimpler, GenericProsCons, GenericCompare>>, QuestionLimit)

\* tokens_used of the mock response.
MockTokens == 150

\* messages.last().map(|m| &m.content).unwrap_or(&"".to_string())
LastContent(msgs) == IF msgs = <<>> THEN <<>> ELSE msgs[Len(msgs)].content

\* A mock that echoes the formatted content, file blocks included.
MockResponseFormatted(provider, model_name, msgs, files) ==
    MockPrefix \o AIProviderToString(provider) \o MockUsing \o model_name \o MockSaid
    \o (IF msgs = <<>> THEN <<>>
        ELSE FormattedMessages(msgs, <<>>, files)[Len(msgs) + 1].content)

\* mock_response of chat.
MockResponse(provider, model_name, msgs, files) ==
    MockPrefix \o AIProviderToString(provider) \o MockUsing \o model_name \o MockSaid
    \o LastContent(msgs)

\* A chat that does not look the provider up.
ChatWithoutLookup(provider, model_name, msgs, mem, files, id) ==
    [ok |-> TRUE,
     val |-> [message_id |-> id,
              content |-> MockResponse(provider, model_name, msgs, files),
              reasoning |-> Some(MockReasoning),
              suggested_questions |->
                  GenerateSuggestedQuestions(MockResponse(provider, model_name, msgs, files),
                                             msgs, mem),
              model_provider |-> AIProviderToString(provider),
              model_name |-> model_name,
              tokens_used |-> Some(MockTokens)]]

\* AIService::chat, with the fresh uuid it draws.
Chat(provider, model_name, msgs, mem, files, id) ==
    IF provider \notin clients
    THEN [ok |-> FALSE, err |-> "Provider not available"]
    ELSE LET mock_response == MockResponse(provider, model_name, msgs, files)
         IN  [ok |-> TRUE,
              val |-> [message_id |-> id,
                       content |-> mock_response,
                       reasoning |-> Some(MockReasoning),
                       suggested_questions |->
                           GenerateSuggestedQuestions(mock_response, msgs, mem),
                       model_provider |-> AIProviderToString(provider),
                       model_name |-> model_name,
                       tokens_used |-> Some(MockTokens)]]

\* A lookup that fails for a provider without a client.
GetAvailableModelsIfAvailable(provider) ==
    IF provider \notin clients THEN [ok |-> FALSE, err |-> "Provider not available"]
    ELSE [ok |-> TRUE, val |-> <<<<"m">>>>]

\* AIService::get_available_models
GetAvailableModels(provider) ==
    [ok |-> TRUE,
     val |-> CASE provider = "Ollama" ->
                    << <<"l","l","a","m","a","3",".","2">>,
                       <<"l","l","a","m","a","3",".","1">>,
                       <<"m","i","s","t","r","a","l">>,
                       <<"c","o","d","e","l","l","a","m","a">>,
                       <<"l","l","a","m","a","2">> >>
               [] provider = "OpenAI" ->
                    << <<"g","p","t","-","4">>,
                       <<"g","p","t","-","4","-","t","u","r","b","o">>,
                       <<"g","p","t","-","3",".","5","-","t","u","r","b","o">> >>
               [] provider = "Anthropic" ->
                    << <<"c","l","a","u","d","e","-","3","-","o","p","u","s","-",
                         "2","0","2","4","0","2","2","9">>,
                       <<"c","l","a","u","d","e","-","3","-","s","o","n","n","e","t","-",
                         "2","0","2","4","0","2","2","9">>,
                       <<"c","l","a","u","d","e","-","3","-","h","a","i","k","u","-",
                         "2","0","2","4","0","3","0","7">> >>
               [] provider = "Gemini" ->
                    << <<"g","e","m","i","n","i","-","p","r","o">>,
                       <<"g","e","m","i","n","i","-","p","r","o","-",
                         "v","i","s","i","o","n">> >>
               [] provider = "OpenRouter" ->
                    << <<"o","p","e","n","a","i","/","g","p","t","-","4">>,
                       <<"a","n","t","h","r","o","p","i","c","/","c","l","a","u","d","e",
                         "-","3","-","o","p","u","s">>,
                       <<"m","e","t","a","-","l","l","a","m","a","/","l","l","a","m","a",
                         "-","3",".","1","-","8","b","-","i","n","s","t","r","u","c","t">> >>]

----------------------------------------------------------------------------
(* Inputs of the model. *)

\* "hi", "yo"
MessageChoices == {<<"h","i">>, <<"y","o">>}

\* Model names: "gpt-4", "llama3.2"
ModelGpt4 == <<"g","p","t","-","4">>
ModelLlama == <<"l","l","a","m","a","3",".","2">>

\* The (provider, model name) pairs create_session is called with.
SessionChoices ==
    {<<p, ModelGpt4>> : p \in AIProviders \ {"Ollama"}} \cup {<<"Ollama", ModelLlama>>}

\* An upload named "a.png" of type "image/png" holding two bytes.
PngFile ==
    [name |-> <<"a",".","p","n","g">>,
     content_type |-> <<"i","m","a","g","e","/","p","n","g">>,
     data |-> <<137, 80>>]

FileChoices == {<<>>, <<PngFile>>}

\* Memory keys "k", "n" and values "v", "w".
MemoryKeys == {<<"k">>, <<"n">>}
MemoryValues == {<<"v">>, <<"w">>}

\* The sets of providers with an API key in the configurations tried.
KeyChoices == {{}, {"OpenAI", "Anthropic", "Gemini", "OpenRouter"}}

\* The readings Utc::now() may give after a reading of t in the same handler.
Readings(t) == {t, t + 1}

Ok(v) == [ok |-> TRUE, val |-> v]
Err(e) == [ok |-> FALSE, err |-> e]

----------------------------------------------------------------------------
(* api.rs: the server functions. *)

\* "default_user", the user every server function acts for.
DefaultUser == "default_user"

NoChat == [called |-> FALSE]

UserRows == {m \in messages : m.role = MessageRoleToString("User")}

\* The create_session and send_message calls made so far that changed the store.
Calls == Cardinality(chat_sessions) + Cardinality(UserRows)

\* create_session. ChatSession::new reads the clock twice in a row; the two
\* readings are taken to be one.
CreateSession(title, model_provider, model_name) ==
    /\ Calls < MaxCalls
    /\ LET t == now + 1
           session == [ChatSessionNew(nextId, t, DefaultUser, model_provider, model_name)
                           EXCEPT !.title = title]
       IN  /\ chat_sessions' = chat_sessions \cup {session}
           /\ now' = t
           /\ nextId' = nextId + 1
           /\ createdWith' = createdWith @@ (session.id :> <<model_provider, model_name>>)
           /\ ret' = [op |-> "create_session", result |-> Ok(session.id)]
    /\ UNCHANGED <<messages, user_memory, file_attachments, suggested_questions,
                   clients, lastChat, savedLog>>

\* A loop that saves the first file only.
AttachmentRowsFirstOnly(files, message_id, firstId, t) ==
    {[id |-> firstId + i - 1, message_id |-> message_id, file_name |-> files[i].name,
      file_path |-> UploadsDir \o files[i].name, file_type |-> files[i].content_type,
      file_size |-> Len(files[i].data), content_hash |-> NoneVal, created_at |-> t] :
        i \in {j \in 1..Len(files) : j = 1}}

\* The FileAttachment rows send_message builds for its files.
AttachmentRows(files, message_id, firstId, t) ==
    {[id |-> firstId + i - 1, message_id |-> message_id, file_name |-> files[i].name,
      file_path |-> UploadsDir \o files[i].name, file_type |-> files[i].content_type,
      file_size |-> Len(files[i].data), content_hash |-> NoneVal, created_at |-> t] :
        i \in 1..Len(files)}

\* relevance_score of the i-th question (i from 0): 1.0 - i * 0.1, in tenths.
RelevanceScore(i) == 10 - i

\* The SuggestedQuestion rows send_message builds for a response.
QuestionRows(questions, session_id, firstId, t) ==
    {[id |-> firstId + i - 1, session_id |-> session_id, question |-> questions[i],
      relevance_score |-> RelevanceScore(i - 1), used |-> FALSE, created_at |-> t] :
        i \in 1..Len(questions)}

\* The messages send_message passes to chat: read before the user message is stored.
HistoryForChat(session_id, user_message) == DbGetSessionMessages(session_id)

\* An assistant message that drops the reasoning of the reply.
AiMessageWithoutReasoning(session_id, ai_response, t) ==
    [id |-> ai_response.message_id, session_id |-> session_id,
     role |-> "Assistant", content |-> ai_response.content,
     reasoning |-> NoneVal,
     model_provider |-> Some(ai_response.model_provider),
     model_name |-> Some(ai_response.model_name),
     tokens_used |-> ai_response.tokens_used, created_at |-> t]

\* send_message: the assistant message built from the reply of the chat.
AiMessage(session_id, ai_response, t) ==
    [id |-> ai_response.message_id, session_id |-> session_id,
     role |-> "Assistant", content |-> ai_response.content,
     reasoning |-> ai_response.reasoning,
     model_provider |-> Some(ai_response.model_provider),
     model_name |-> Some(ai_response.model_name),
     tokens_used |-> ai_response.tokens_used, created_at |-> t]

\* send_message. The user message and the attachments carry the handler's first
\* reading of the clock, the reply and its questions a later one.
SendMessage(session_id, message, files) ==
    \/ /\ DbGetSession(session_id) = {}
       /\ ret' = [op |-> "send_message", session_id |-> session_id, message |-> message,
                  files |-> files, result |-> Err("Session not found")]
       /\ UNCHANGED <<chat_sessions, messages, user_memory, file_attachments,
                      suggested_questions, clients, now, nextId, lastChat, createdWith,
                      savedLog>>
    \/ /\ Calls < MaxCalls
       /\ \E session \in DbGetSession(session_id), t2 \in Readings(now + 1) :
          \E mem \in DbGetUserMemory(session.user_id) :
            LET t1 == now + 1
                user_message == MessageNew(nextId, t1, session_id, "User", message)
                attachments == AttachmentRows(files, user_message.id, nextId + 1, t1)
                n == Len(files)
                provider == AIProviderFromString(session.model_provider)
                model_name == session.model_name
            IN  \E msgs \in HistoryForChat(session_id, user_message) :
                \E r \in {Chat(provider, model_name, msgs, mem, files, nextId + n + 1)} :
                LET ai_message == AiMessage(session_id, r.val, t2)
                    questions == QuestionRows(r.val.suggested_questions, session_id,
                                              nextId + n + 2, t2)
                IN  /\ lastChat' = [called |-> TRUE, session_id |-> session_id,
                                    message |-> message, provider |-> provider,
                                    model_name |-> model_name, messages |-> msgs,
                                    user_memory |-> mem, files |-> files,
                                    ok |-> r.ok, saved |-> savedLog]
                    /\ file_attachments' = file_attachments \cup attachments
                    /\ ret' = [op |-> "send_message", session_id |-> session_id,
                               message |-> message, files |-> files, result |-> r]
                    /\ IF r.ok
                       THEN /\ messages' = messages \cup {MessageToRow(user_message),
                                                          MessageToRow(ai_message)}
                            /\ suggested_questions' = suggested_questions \cup questions
                            /\ now' = t2
                            /\ nextId' = nextId + n + 2 + Cardinality(questions)
                       ELSE /\ messages' = messages \cup {MessageToRow(user_message)}
                            /\ suggested_questions' = suggested_questions
                            /\ now' = t1
                            /\ nextId' = nextId + n + 1
                    /\ UNCHANGED <<chat_sessions, user_memory, clients, createdWith,
                                   savedLog>>

\* get_chat_history: reads the store only; the results it may return.
GetChatHistory(session_id) == {Ok(msgs) : msgs \in DbGetSessionMessages(session_id)}

\* get_suggested_questions: reads the store only; the results it may return.
GetSuggestedQuestions(session_id) ==
    {Ok(qs) : qs \in DbGetSessionSuggestedQuestions(session_id, QuestionLimit)}

\* mark_question_used. The call is recorded in log.
MarkQuestionUsed(question_id) ==
    /\ Len(log) < MaxLog
    /\ suggested_questions' = DbMarkQuestionUsed(question_id)
    /\ log' = Append(log, [op |-> "mark_question_used", question_id |-> question_id,
                           result |-> Ok(<<>>)])
    /\ ret' = [op |-> "mark_question_used", question_id |-> question_id,
               result |-> Ok(<<>>)]
    /\ UNCHANGED <<chat_sessions, messages, user_memory, file_attachments, clients,
                   now, nextId, lastChat, createdWith, savedLog>>

\* save_memory
SaveMemory(memory_key, memory_value) ==
    /\ Len(savedLog) < MaxSaves
    /\ user_memory' = DbSaveMemory(UserMemoryNew(nextId, now + 1, DefaultUser,
                                                 memory_key, memory_value))
    /\ now' = now + 1
    /\ nextId' = nextId + 1
    /\ savedLog' = Append(savedLog, <<memory_key, memory_value>>)
    /\ ret' = [op |-> "save_memory", memory_key |-> memory_key,
               memory_value |-> memory_value, result |-> Ok(<<>>)]
    /\ UNCHANGED <<chat_sessions, messages, file_attachments, suggested_questions,
                   clients, lastChat, createdWith>>

\* get_user_memory: reads the store only; the results it may return.
GetUserMemory == {Ok(mem) : mem \in DbGetUserMemory(DefaultUser)}

----------------------------------------------------------------------------
(* components/chat_box.rs: the signals of ChatBox. input_value and            *)
(* uploaded_files are not kept: typing a message and submitting it is one     *)
(* step, which leaves both empty.                                             *)

\* The signals as create_signal makes them, and the action's value, which is
\* None until a dispatch has finished. send_session is not in the code: it is the
\* session the finished dispatch was sent for.
ChatBoxNew ==
    [mounted |-> FALSE, current_session |-> NoneVal, messages |-> <<>>,
     is_loading |-> FALSE, suggested_questions |-> <<>>,
     selected_model |-> "Ollama", selected_model_name |-> ModelLlama,
     send_value |-> NoneVal, send_session |-> 0]

\* components/model_switcher.rs: the signals as create_signal makes them, and
\* the get_available_models requests its effect has spawned.
ModelSwitcherNew ==
    [mounted |-> FALSE, show_dropdown |-> FALSE, available_models |-> <<>>,
     loads |-> <<>>]

\* RwLock::new: nobody holds the lock.
RwLockNew == [readers |-> {}, writers |-> {}]

\* The AIService::chat calls that may run at once.
ChatTaskIds == 1..MaxLog

----------------------------------------------------------------------------
(* The server: any sequence of create_session and send_message calls.  The  *)
(* server functions that only read the store are the operators above: what  *)
(* they return is a function of the state.                                  *)

Init ==
    /\ chat_sessions = {}
    /\ messages = {}
    /\ user_memory = {}
    /\ file_attachments = {}
    /\ suggested_questions = {}
    /\ config \in KeyChoices
    /\ clients = AIServiceNew(config)
    /\ now = 0
    /\ nextId = 1
    /\ ret = [op |-> "none"]
    /\ lastChat = NoChat
    /\ createdWith = <<>>
    /\ savedLog = <<>>
    /\ log = <<>>
    /\ ui = ChatBoxNew
    /\ tasks = <<>>
    /\ clientsLock = RwLockNew
    /\ chatPc = [c \in ChatTaskIds |-> [pc |-> "idle"]]
    /\ switcher = ModelSwitcherNew

\* The ids a caller may pass: those of the rows, and one that names no row.
SessionIds == {s.id : s \in chat_sessions} \cup {0}

Next ==
    \/ \E c \in SessionChoices : CreateSession(NoneVal, c[1], c[2]) /\ UNCHANGED <<log, ui, tasks, serviceVars, switcher>>
    \/ \E s \in SessionIds, m \in MessageChoices :
         SendMessage(s, m, <<>>) /\ UNCHANGED <<log, ui, tasks, serviceVars, switcher>>

Spec == Init /\ [][Next]_vars

----------------------------------------------------------------------------
(* The server with suggested questions: sessions of one kind, one message,  *)
(* and any sequence of create_session, send_message and mark_question_used  *)
(* calls, get_suggested_questions being read in every state.                *)

\* The ids a caller may pass: those of the two most relevant questions of each
\* reply, and one that names no row.
QuestionIds ==
    {q.id : q \in {x \in suggested_questions :
                      x.relevance_score >= RelevanceScore(1)}} \cup {0}

NextQuestions ==
    \/ CreateSession(NoneVal, "Ollama", ModelLlama) /\ UNCHANGED <<log, ui, tasks, serviceVars, switcher>>
    \/ \E s \in SessionIds : SendMessage(s, <<"h","i">>, <<>>) /\ UNCHANGED <<log, ui, tasks, serviceVars, switcher>>
    \/ \E q \in QuestionIds : MarkQuestionUsed(q) /\ UNCHANGED <<ui, tasks, serviceVars, switcher>>

SpecQuestions == Init /\ [][NextQuestions]_vars

----------------------------------------------------------------------------
(* The server with a user memory: one kind of session, one message, and any *)
(* sequence of save_memory, create_session and send_message calls.          *)

NextMemory ==
    \/ CreateSession(NoneVal, "Ollama", ModelLlama) /\ UNCHANGED <<log, ui, tasks, serviceVars, switcher>>
    \/ \E s \in SessionIds : SendMessage(s, <<"h","i">>, <<>>) /\ UNCHANGED <<log, ui, tasks, serviceVars, switcher>>
    \/ \E k \in MemoryKeys, v \in MemoryValues : SaveMemory(k, v) /\ UNCHANGED <<log, ui, tasks, serviceVars, switcher>>

SpecMemory == Init /\ [][NextMemory]_vars

----------------------------------------------------------------------------
(* AIService::chat called directly, with any history, memory and files. *)

\* Message lists: none; the user's "hi"; a system message "go", the user's
\* "yo", a reply "ok" and the user's "hi".
HistoryChoices ==
    {<<>>,
     <<MessageNew(1, 1, 1, "User", <<"h","i">>)>>,
     <<MessageNew(1, 1, 1, "System", <<"g","o">>),
       MessageNew(2, 2, 1, "User", <<"y","o">>),
       MessageNew(3, 3, 1, "Assistant", <<"o","k">>),
       MessageNew(4, 4, 1, "User", <<"h","i">>)>>}

\* User memories: none; the entry k: v.
MemoryChoices == {<<>>, <<UserMemoryNew(1, 1, DefaultUser, <<"k">>, <<"v">>)>>}

ChatCall(provider, model_name, msgs, mem, files) ==
    /\ Len(log) < MaxLog
    /\ \E r \in {Chat(provider, model_name, msgs, mem, files, nextId)} :
         /\ log' = Append(log, [op |-> "chat", provider |-> provider,
                                model_name |-> model_name, messages |-> msgs,
                                user_memory |-> mem, files |-> files,
                                formatted |-> IF r.ok
                                              THEN FormattedMessages(msgs, mem, files)
                                              ELSE <<>>,
                                result |-> r])
         /\ nextId' = IF r.ok THEN nextId + 1 ELSE nextId
    /\ UNCHANGED <<chat_sessions, messages, user_memory, file_attachments,
                   suggested_questions, clients, now, ret, lastChat, createdWith,
                   savedLog, ui, tasks>>

NextChat ==
    \E p \in {"Ollama", "OpenAI"}, m \in {ModelGpt4, ModelLlama} :
    \E msgs \in HistoryChoices, mem \in MemoryChoices, f \in FileChoices :
        ChatCall(p, m, msgs, mem, f) /\ UNCHANGED <<serviceVars, switcher>>

SpecChat == Init /\ [][NextChat]_vars

----------------------------------------------------------------------------
(* AIService::chat calls running at once on one service: each takes the lock *)
(* of clients, looks the provider up and holds the lock until it returns.    *)

\* A chat that takes the write lock.
ChatLockModeWrite == "write"

\* chat takes self.clients.read()
ChatLockMode == "read"

\* RwLock: a read lock is granted unless a writer holds the lock, a write lock
\* when nobody holds it.
CanAcquire(mode) ==
    IF mode = "read" THEN clientsLock.writers = {}
    ELSE clientsLock.writers = {} /\ clientsLock.readers = {}

Acquired(mode, c) ==
    IF mode = "read" THEN [clientsLock EXCEPT !.readers = @ \cup {c}]
    ELSE [clientsLock EXCEPT !.writers = @ \cup {c}]

\* Dropping the guard.
Released(c) == [readers |-> clientsLock.readers \ {c}, writers |-> clientsLock.writers \ {c}]

\* The calls that have started and not returned.
ActiveChats == {c \in ChatTaskIds : chatPc[c].pc # "idle"}

\* chat is called and reaches the await of the lock.
ChatStart(c, provider) ==
    /\ chatPc[c].pc = "idle"
    /\ Len(log) + Cardinality(ActiveChats) < MaxLog
    /\ chatPc' = [chatPc EXCEPT ![c] = [pc |-> "waiting", provider |-> provider]]
    /\ UNCHANGED <<dbVars, clients, now, nextId, ret, lastChat, createdWith, savedLog,
                   log, ui, tasks, config, clientsLock, switcher>>

\* The lock is granted.
ChatAcquire(c) ==
    /\ chatPc[c].pc = "waiting"
    /\ CanAcquire(ChatLockMode)
    /\ clientsLock' = Acquired(ChatLockMode, c)
    /\ chatPc' = [chatPc EXCEPT ![c].pc = "holding"]
    /\ UNCHANGED <<dbVars, clients, now, nextId, ret, lastChat, createdWith, savedLog,
                   log, ui, tasks, config, switcher>>

\* The rest of chat: the lookup, the response, and the guard dropped on return.
ChatFinish(c) ==
    /\ chatPc[c].pc = "holding"
    /\ \E r \in {Chat(chatPc[c].provider, ModelGpt4, <<>>, <<>>, <<>>, nextId)} :
         /\ log' = Append(log, [op |-> "chat", provider |-> chatPc[c].provider,
                                model_name |-> ModelGpt4, messages |-> <<>>,
                                user_memory |-> <<>>, files |-> <<>>, result |-> r])
         /\ nextId' = IF r.ok THEN nextId + 1 ELSE nextId
    /\ clientsLock' = Released(c)
    /\ chatPc' = [chatPc EXCEPT ![c] = [pc |-> "idle"]]
    /\ UNCHANGED <<dbVars, clients, now, ret, lastChat, createdWith, savedLog,
                   ui, tasks, config, switcher>>

NextLock ==
    \/ \E c \in ChatTaskIds, p \in AIProviders : ChatStart(c, p)
    \/ \E c \in ChatTaskIds : ChatAcquire(c)
    \/ \E c \in ChatTaskIds : ChatFinish(c)

SpecLock == Init /\ [][NextLock]_vars

----------------------------------------------------------------------------
(* get_available_models, on a server that is restarted with other API keys *)
(* and whose store changes.                                                *)

\* get_available_models of api.rs: the AppState is there, the call is passed on.
ApiGetAvailableModels(provider) == GetAvailableModels(provider)

GetAvailableModelsCall(provider) ==
    /\ Len(log) < MaxLog
    /\ log' = Append(log, [op |-> "get_available_models", provider |-> provider,
                           available |-> provider \in clients,
                           sessions |-> Cardinality(chat_sessions),
                           result |-> ApiGetAvailableModels(provider)])
    /\ UNCHANGED <<chat_sessions, messages, user_memory, file_attachments,
                   suggested_questions, clients, now, nextId, ret, lastChat,
                   createdWith, savedLog, ui, tasks>>

\* main run again on the same database: AIService::new with the API keys of the
\* environment it is started in.
Restart(keys) ==
    /\ config' = keys
    /\ clients' = AIServiceNew(keys)
    /\ clients' # clients
    /\ UNCHANGED <<chat_sessions, messages, user_memory, file_attachments,
                   suggested_questions, now, nextId, ret, lastChat, createdWith,
                   savedLog, log, ui, tasks>>

NextModels ==
    \/ \E p \in AIProviders : GetAvailableModelsCall(p) /\ UNCHANGED <<serviceVars, switcher>>
    \/ \E keys \in SUBSET {"OpenAI", "Anthropic", "Gemini", "OpenRouter"} :
         Restart(keys) /\ UNCHANGED <<clientsLock, chatPc, switcher>>
    \/ CreateSession(NoneVal, "Ollama", ModelLlama) /\ UNCHANGED <<log, ui, tasks, serviceVars, switcher>>

SpecModels == Init /\ [][NextModels]_vars

----------------------------------------------------------------------------
(* AIService::chat for every provider, on a server that is restarted with    *)
(* other API keys.                                                           *)

NextProviders ==
    \/ \E p \in AIProviders :
         ChatCall(p, ModelGpt4, <<>>, <<>>, <<>>) /\ UNCHANGED <<serviceVars, switcher>>
    \/ \E keys \in SUBSET {"OpenAI", "Anthropic", "Gemini", "OpenRouter"} :
         Restart(keys) /\ UNCHANGED <<clientsLock, chatPc, switcher>>

SpecProviders == Init /\ [][NextProviders]_vars

----------------------------------------------------------------------------
(* extract_topics and generate_suggested_questions applied to a reply. *)

\* Words: "abcde", "vwxyz" (5 characters, 5 bytes), "abcd" (4 characters,
\* 4 bytes) and "ééé" (3 characters, 6 bytes).
WordChoices ==
    {<<"a","b","c","d","e">>, <<"v","w","x","y","z">>, <<"a","b","c","d">>,
     <<"é","é","é">>}

\* The whitespace put between, before and after the words of a reply.
GapChoices == {<<" ">>, <<"\n", " ">>}

RECURSIVE JoinWords(_, _)
\* The words, each followed by the gap.
JoinWords(words, gap) ==
    IF words = <<>> THEN <<>> ELSE Head(words) \o gap \o JoinWords(Tail(words), gap)

Replies ==
    UNION {[1..n -> WordChoices] : n \in 0..MaxWords}

\* One call of generate_suggested_questions, which calls extract_topics.
Suggest(words, gap) ==
    /\ ret.op = "none"
    /\ LET content == gap \o JoinWords(words, gap)
       IN  ret' = [op |-> "generate_suggested_questions", words |-> words,
                   content |-> content, topics |-> ExtractTopics(content),
                   result |-> Ok(GenerateSuggestedQuestions(content, <<>>, <<>>))]
    /\ UNCHANGED <<chat_sessions, messages, user_memory, file_attachments,
                   suggested_questions, clients, now, nextId, lastChat, createdWith,
                   savedLog, log, ui, tasks>>

NextTopics ==
    \E words \in Replies, gap \in GapChoices :
        Suggest(words, gap) /\ UNCHANGED <<serviceVars, switcher>>

SpecTopics == Init /\ [][NextTopics]_vars

----------------------------------------------------------------------------
(* build_content_with_files applied to a message content and uploads. *)

\* "t.txt" of type "text/plain" holding the bytes of "hi".
TxtFile ==
    [name |-> <<"t",".","t","x","t">>,
     content_type |-> <<"t","e","x","t","/","p","l","a","i","n">>,
     data |-> <<104, 105>>]

\* "d.pdf" of type "application/pdf".
PdfFile ==
    [name |-> <<"d",".","p","d","f">>, content_type |-> ContentTypePdf, data |-> <<37, 80>>]

\* "z.zip" of type "application/zip".
ZipFile ==
    [name |-> <<"z",".","z","i","p">>,
     content_type |-> <<"a","p","p","l","i","c","a","t","i","o","n","/","z","i","p">>,
     data |-> <<80, 75>>]

\* "b" with the content type "image/", which names no subtype.
BareImageFile == [name |-> <<"b">>, content_type |-> ContentTypeImage, data |-> <<1, 2, 3, 4>>]

\* "c" with the content type "text/" holding the bytes of "yo".
BareTextFile == [name |-> <<"c">>, content_type |-> ContentTypeText, data |-> <<121, 111>>]

UploadChoices == {PngFile, TxtFile, PdfFile, ZipFile, BareImageFile, BareTextFile}

Uploads == UNION {[1..n -> UploadChoices] : n \in 0..MaxFiles}

\* One call of build_content_with_files.
BuildContent(content, files) ==
    /\ ret.op = "none"
    /\ ret' = [op |-> "build_content_with_files", content |-> content, files |-> files,
               result |-> Ok(BuildContentWithFiles(content, files))]
    /\ UNCHANGED <<dbVars, clients, now, nextId, lastChat, createdWith, savedLog, log,
                   ui, tasks, serviceVars, switcher>>

NextFiles == \E content \in MessageChoices, files \in Uploads : BuildContent(content, files)

SpecFiles == Init /\ [][NextFiles]_vars

----------------------------------------------------------------------------
(* The server with uploads: send_message called with no file, one file, the  *)
(* same file twice or two files, on sessions of a provider that is always    *)
(* available and of one that needs an API key.                               *)

\* The files of a send_message call.
AttachmentChoices == {<<>>, <<PngFile>>, <<PngFile, PngFile>>, <<TxtFile, PngFile>>}

NextAttachments ==
    \/ \E c \in {<<"Ollama", ModelLlama>>, <<"OpenAI", ModelGpt4>>} :
         CreateSession(NoneVal, c[1], c[2]) /\ UNCHANGED <<log, ui, tasks, serviceVars, switcher>>
    \/ \E s \in SessionIds, f \in AttachmentChoices :
         SendMessage(s, <<"h","i">>, f) /\ UNCHANGED <<log, ui, tasks, serviceVars, switcher>>

SpecAttachments == Init /\ [][NextAttachments]_vars

----------------------------------------------------------------------------
(* Database::create_message called with messages of every role, and the row  *)
(* mapping of get_session_messages applied to rows with any role string.     *)

\* Role strings a row may hold: those Display writes, and "User", "tool", "".
RoleStrings ==
    {MessageRoleToString(r) : r \in MessageRoles}
    \cup {<<"U","s","e","r">>, <<"t","o","o","l">>, <<>>}

\* Database::create_message, for a new message of session 1. The message
\* is recorded in log.
CreateMessage(role, content) ==
    /\ Len(log) < MaxLog
    /\ LET message == MessageNew(nextId, now + 1, 1, role, content)
       IN  /\ messages' = messages \cup {MessageToRow(message)}
           /\ log' = Append(log, [op |-> "create_message", message |-> message])
    /\ now' = now + 1
    /\ nextId' = nextId + 1
    /\ UNCHANGED <<chat_sessions, user_memory, file_attachments, suggested_questions,
                   clients, ret, lastChat, createdWith, savedLog>>

\* The closure of get_session_messages applied to one row of table messages.
ReadRow(role_string, content) ==
    LET row == [MessageNew(0, now, 1, "User", content) EXCEPT !.role = role_string]
    IN  /\ ret' = [op |-> "row_to_message", row |-> row, result |-> RowToMessage(row)]
        /\ UNCHANGED <<dbVars, clients, now, nextId, lastChat, createdWith, savedLog>>

NextRoles ==
    \/ \E r \in MessageRoles, m \in MessageChoices :
         CreateMessage(r, m) /\ UNCHANGED <<ui, tasks, serviceVars, switcher>>
    \/ \E s \in RoleStrings, m \in MessageChoices :
         ReadRow(s, m) /\ UNCHANGED <<log, ui, tasks, serviceVars, switcher>>

SpecRoles == Init /\ [][NextRoles]_vars

----------------------------------------------------------------------------
(* The chat box and the server. A request is a task: the server handles it  *)
(* at some time, in any order with the others, and the chat box receives the *)
(* response at some later time.                                              *)

CreateTask(origin, provider, model_name) ==
    [kind |-> "create_session", stage |-> "request", origin |-> origin,
     provider |-> provider, model_name |-> model_name]

HistoryTask(session_id) ==
    [kind |-> "get_chat_history", stage |-> "request", session_id |-> session_id]

QuestionsTask(session_id) ==
    [kind |-> "get_suggested_questions", stage |-> "request", session_id |-> session_id]

SendTask(session_id, message, files) ==
    [kind |-> "send_message", stage |-> "request", session_id |-> session_id,
     message |-> message, files |-> files]

\* The tasks but the i-th, which has run to its end.
Finished(i) == SubSeq(tasks, 1, i - 1) \o SubSeq(tasks, i + 1, Len(tasks))

Answered(t, result) == [(("result" :> result) @@ t) EXCEPT !.stage = "response"]

\* The create_session and send_message requests the server has not handled yet.
StoreRequests ==
    Cardinality({i \in 1..Len(tasks) :
                    /\ tasks[i].stage = "request"
                    /\ tasks[i].kind \in {"create_session", "send_message"}})

\* The effects that track current_session, run for its new value Some(session_id):
\* one spawns get_chat_history, the other get_suggested_questions.
SessionEffects(session_id) == <<HistoryTask(session_id), QuestionsTask(session_id)>>

\* The component is mounted and its effects run for the first time: the first
\* spawns create_session for the selected model; the other two find no session.
Mount ==
    /\ ~ui.mounted
    /\ Calls + StoreRequests < MaxRequests
    /\ ui' = [ui EXCEPT !.mounted = TRUE]
    /\ tasks' = Append(tasks, CreateTask("mount", ui.selected_model, ui.selected_model_name))
    /\ UNCHANGED <<dbVars, clients, now, nextId, ret, lastChat, createdWith, savedLog, log>>

\* handle_send with a message that is not blank, and the send_message action it
\* dispatches. The submit button is disabled while is_loading.
HandleSend(message, files) ==
    /\ ui.mounted
    /\ ~ui.is_loading
    /\ Calls + StoreRequests < MaxRequests
    /\ IF ui.current_session.some
       THEN /\ ui' = [ui EXCEPT !.is_loading = TRUE]
            /\ tasks' = Append(tasks, SendTask(ui.current_session.val, message, files))
       ELSE /\ ui' = [ui EXCEPT !.send_value = Some(Err("No active session"))]
            /\ UNCHANGED tasks
    /\ UNCHANGED <<dbVars, clients, now, nextId, ret, lastChat, createdWith, savedLog, log>>

\* handle_model_change
HandleModelChange(provider, model_name) ==
    /\ ui.mounted
    /\ Calls + StoreRequests < MaxRequests
    /\ ui' = [ui EXCEPT !.selected_model = provider, !.selected_model_name = model_name]
    /\ tasks' = Append(tasks, CreateTask("model_change", provider, model_name))
    /\ UNCHANGED <<dbVars, clients, now, nextId, ret, lastChat, createdWith, savedLog, log>>

\* The server handles request i.
Serve(i) ==
    LET t == tasks[i]
    IN  /\ t.stage = "request"
        /\ \/ /\ t.kind = "create_session"
              /\ CreateSession(NoneVal, t.provider, t.model_name)
              /\ tasks' = [tasks EXCEPT ![i] = Answered(t, ret'.result)]
              /\ UNCHANGED <<log, ui>>
           \/ /\ t.kind = "send_message"
              /\ SendMessage(t.session_id, t.message, t.files)
              /\ tasks' = [tasks EXCEPT ![i] = Answered(t, ret'.result)]
              /\ UNCHANGED <<log, ui>>
           \/ /\ t.kind = "get_chat_history"
              /\ \E r \in GetChatHistory(t.session_id) :
                   tasks' = [tasks EXCEPT ![i] = Answered(t, r)]
              /\ UNCHANGED <<dbVars, clients, now, nextId, ret, lastChat, createdWith,
                             savedLog, log, ui>>
           \/ /\ t.kind = "get_suggested_questions"
              /\ \E r \in GetSuggestedQuestions(t.session_id) :
                   tasks' = [tasks EXCEPT ![i] = Answered(t, r)]
              /\ UNCHANGED <<dbVars, clients, now, nextId, ret, lastChat, createdWith,
                             savedLog, log, ui>>

\* The chat box receives response i and the task that awaited it runs on.
Receive(i) ==
    LET t == tasks[i]
        rest == Finished(i)
    IN  /\ t.stage = "response"
        /\ \/ /\ t.kind = "create_session"
              /\ IF t.result.ok
                 THEN /\ ui' = [ui EXCEPT !.current_session = Some(t.result.val),
                                          !.messages = IF t.origin = "model_change"
                                                       THEN <<>> ELSE @]
                      /\ tasks' = rest \o SessionEffects(t.result.val)
                 ELSE /\ tasks' = rest
                      /\ UNCHANGED ui
           \/ /\ t.kind = "get_chat_history"
              /\ ui' = IF t.result.ok THEN [ui EXCEPT !.messages = t.result.val] ELSE ui
              /\ tasks' = rest
           \/ /\ t.kind = "get_suggested_questions"
              /\ ui' = IF t.result.ok
                       THEN [ui EXCEPT !.suggested_questions = t.result.val] ELSE ui
              /\ tasks' = rest
           \/ /\ t.kind = "send_message"
              /\ ui' = [ui EXCEPT !.is_loading = FALSE, !.send_value = Some(t.result),
                                  !.send_session = t.session_id]
              /\ tasks' = rest
        /\ UNCHANGED <<dbVars, clients, now, nextId, ret, lastChat, createdWith,
                       savedLog, log>>

\* The steps that need no user: the server is running and the spawned tasks are
\* polled when their responses arrive.
SystemStep ==
    \E i \in 1..Len(tasks) : (Serve(i) \/ Receive(i)) /\ UNCHANGED <<serviceVars, switcher>>

NextUI ==
    \/ Mount /\ UNCHANGED <<serviceVars, switcher>>
    \/ HandleSend(<<"h","i">>, <<>>) /\ UNCHANGED <<serviceVars, switcher>>
    \/ HandleModelChange("OpenAI", ModelGpt4) /\ UNCHANGED <<serviceVars, switcher>>
    \/ \E i \in 1..Len(tasks) : Serve(i) /\ UNCHANGED <<serviceVars, switcher>>
    \/ \E i \in 1..Len(tasks) : Receive(i) /\ UNCHANGED <<serviceVars, switcher>>

SpecUI == Init /\ [][NextUI]_vars /\ WF_vars(SystemStep)

----------------------------------------------------------------------------
(* The model switcher inside the chat box. Its on_change is the chat box's   *)
(* handle_model_change; the requests of the chat box itself stay unanswered  *)
(* here: their responses do not reach the switcher.                          *)

ModelsTask(provider) ==
    [kind |-> "get_available_models", stage |-> "request", provider |-> provider]

\* The chat box is mounted and the switcher in it: the switcher's effect runs
\* and spawns get_available_models for the selected provider.
MountSwitcher ==
    /\ Mount
    /\ switcher' = [switcher EXCEPT !.mounted = TRUE,
                                    !.loads = Append(@, ModelsTask(ui.selected_model))]

\* toggle_dropdown
ToggleDropdown ==
    /\ switcher.mounted
    /\ switcher' = [switcher EXCEPT !.show_dropdown = ~@]
    /\ UNCHANGED <<dbVars, clients, now, nextId, ret, lastChat, createdWith, savedLog,
                   log, ui, tasks>>

\* select_model: on_change, which sets the selected provider, so that the
\* effect runs again and spawns get_available_models for it; the dropdown closes.
SelectModel(provider, model) ==
    /\ HandleModelChange(provider, model)
    /\ switcher' = [switcher EXCEPT !.show_dropdown = FALSE,
                                    !.loads = Append(@, ModelsTask(provider))]

\* click_handler of a provider button, with a model list that is not empty.
ClickProvider(provider) ==
    /\ switcher.show_dropdown
    /\ switcher.available_models # <<>>
    /\ SelectModel(provider, Head(switcher.available_models))

\* click_handler of a model button.
ClickModel(model) ==
    /\ switcher.show_dropdown
    /\ \E i \in 1..Len(switcher.available_models) : switcher.available_models[i] = model
    /\ SelectModel(ui.selected_model, model)

\* The server handles get_available_models request i of the switcher.
ServeModels(i) ==
    /\ switcher.loads[i].stage = "request"
    /\ switcher' = [switcher EXCEPT
                      !.loads[i] = Answered(@, ApiGetAvailableModels(@.provider))]
    /\ UNCHANGED <<dbVars, clients, now, nextId, ret, lastChat, createdWith, savedLog,
                   log, ui, tasks>>

\* The switcher receives response i.
ReceiveModels(i) ==
    LET t == switcher.loads[i]
        rest == SubSeq(switcher.loads, 1, i - 1)
                \o SubSeq(switcher.loads, i + 1, Len(switcher.loads))
    IN  /\ t.stage = "response"
        /\ switcher' = [switcher EXCEPT
                          !.available_models = IF t.result.ok THEN t.result.val ELSE @,
                          !.loads = rest]
        /\ UNCHANGED <<dbVars, clients, now, nextId, ret, lastChat, createdWith,
                       savedLog, log, ui, tasks>>

\* The model names of the lists get_available_models returns.
ModelNames ==
    UNION {Range(GetAvailableModels(p).val) : p \in AIProviders}

NextSwitcher ==
    \/ MountSwitcher /\ UNCHANGED serviceVars
    \/ ToggleDropdown /\ UNCHANGED serviceVars
    \/ \E p \in AIProviders : ClickProvider(p) /\ UNCHANGED serviceVars
    \/ \E m \in ModelNames : ClickModel(m) /\ UNCHANGED serviceVars
    \/ \E i \in 1..Len(switcher.loads) : ServeModels(i) /\ UNCHANGED serviceVars
    \/ \E i \in 1..Len(switcher.loads) : ReceiveModels(i) /\ UNCHANGED serviceVars

SpecSwitcher == Init /\ [][NextSwitcher]_vars

----------------------------------------------------------------------------
(* Claims. *)

Last(seq) == seq[Len(seq)]

\* The rows of table messages stored with session_id = s.
StoredFor(s) == {m \in messages : m.session_id = s}

\* C1: for every session id s, every result get_chat_history(s) may return is Ok
\* and lists exactly the messages stored with session_id = s, each once, none of
\* another session and none missing, in non-decreasing created_at order.
C1_HistoryIsTheSessionsMessages ==
    \A s \in SessionIds : \A r \in GetChatHistory(s) :
        /\ r.ok
        /\ Len(r.val) = Cardinality(StoredFor(s))
        /\ {MessageToRow(r.val[i]) : i \in 1..Len(r.val)} = StoredFor(s)
        /\ \A i, j \in 1..Len(r.val) : i < j => r.val[i].created_at <= r.val[j].created_at

\* Two sessions exist, a send_message has stored a message and its reply in one
\* of them, and the other one's history is empty.
C1_Witness ==
    /\ ret.op = "send_message" /\ ret.result.ok
    /\ \E s1, s2 \in chat_sessions :
         /\ s1.id # s2.id
         /\ Cardinality(StoredFor(s1.id)) >= 2
         /\ StoredFor(s2.id) = {}

\* "You said: "
YouSaid == <<"Y","o","u"," ","s","a","i","d",":"," ">>

\* C2: when send_message(s, m) returns a response, the message list chat was
\* called with has the user message m as its last element and the reply content
\* ends with "You said: m".
C2_ReplyEchoesTheSentMessage ==
    (ret.op = "send_message" /\ ret.result.ok) =>
        /\ lastChat.messages # <<>>
        /\ Last(lastChat.messages).role = "User"
        /\ Last(lastChat.messages).content = ret.message
        /\ EndsWith(ret.result.val.content, YouSaid \o ret.message)

\* The value of the last pair of saved that has key k.
Latest(saved, k) ==
    saved[CHOOSE i \in 1..Len(saved) :
              /\ saved[i][1] = k
              /\ \A j \in (i + 1)..Len(saved) : saved[j][1] # k][2]

SavedKeys(saved) == {saved[i][1] : i \in 1..Len(saved)}

\* "- key: value"
MemoryLine(k, v) == <<"-", " ">> \o k \o <<":", " ">> \o v

\* "User context and preferences:"
MemorySectionTitle == SubSeq(PromptMemoryHead, 3, Len(PromptMemoryHead) - 1)

IsMemoryLine(l) == Len(l) >= 2 /\ SubSeq(l, 1, 2) = <<"-", " ">>

\* C3: the system prompt built for a chat call of send_message holds the line
\* "- key: value" for every key saved by a save_memory completed before the call,
\* with the value saved last for that key (whichever session was current when it
\* was saved); every "- " line of the prompt is one of the saved pairs; and the
\* memory section is there iff a save_memory completed before the call.
C3_MemoryIsInTheSystemPrompt ==
    (lastChat.called /\ lastChat.ok) =>
        LET prompt == Lines(BuildSystemPrompt(lastChat.user_memory))
            lines == Range(prompt)
            saved == lastChat.saved
        IN  /\ \A k \in SavedKeys(saved) : MemoryLine(k, Latest(saved, k)) \in lines
            /\ \A l \in lines :
                 IsMemoryLine(l) => \E i \in 1..Len(saved) :
                                         l = MemoryLine(saved[i][1], saved[i][2])
            /\ (MemorySectionTitle \in lines) <=> (saved # <<>>)

\* A send_message on a second session got a response after a save_memory that
\* completed when only the first session existed.
C3_Witness ==
    /\ lastChat.called /\ lastChat.ok
    /\ lastChat.saved # <<>>
    /\ \E s \in chat_sessions : s.id < lastChat.session_id /\ StoredFor(s.id) = {}

C5_SessionKeepsItsModel ==
    /\ \A p \in AIProviders : AIProviderFromString(AIProviderToString(p)) = p
    /\ lastChat.called =>
         /\ lastChat.provider = createdWith[lastChat.session_id][1]
         /\ lastChat.model_name = createdWith[lastChat.session_id][2]
    /\ \A m \in messages :
         m.role = MessageRoleToString("Assistant") =>
             /\ m.model_provider = Some(AIProviderToString(createdWith[m.session_id][1]))
             /\ m.model_name = Some(createdWith[m.session_id][2])

\* A send_message on a session created for OpenRouter stored its reply.
C5_Witness ==
    /\ ret.op = "send_message" /\ ret.result.ok
    /\ lastChat.provider = "OpenRouter"
    /\ createdWith[lastChat.session_id][1] = "OpenRouter"
    /\ \E m \in messages : m.id = ret.result.val.message_id

\* C6: after send_message on session s returned a response, and with no question
\* of s marked used, every result of get_suggested_questions(s) lists the
\* questions generated for that reply: the rows stored for it, with its texts.
C6_LatestQuestionsAreReturned ==
    (/\ ret.op = "send_message" /\ ret.result.ok
     /\ \A q \in suggested_questions : q.session_id = ret.session_id => ~q.used) =>
        \A r \in GetSuggestedQuestions(ret.session_id) :
            /\ r.ok
            /\ [i \in 1..Len(r.val) |-> r.val[i].question]
                   = ret.result.val.suggested_questions
            /\ \A i \in 1..Len(r.val) : r.val[i].id > ret.result.val.message_id

\* The words of a reply that are longer than 4 characters.
LongByChars(words) == SelectSeq(words, LAMBDA w : Len(w) > 4)

\* What C8 says generate_suggested_questions returns for the topics.
QuestionsFor(topics) ==
    Take([i \in 1..Min(3, Len(topics)) |-> TellMeMore \o topics[i]]
         \o <<GenericSimpler, GenericProsCons, GenericCompare>>, 5)

\* C8: the topics extract_topics returns are the first at most 5
\* whitespace-separated words of the reply longer than 4 characters, in their
\* order; generate_suggested_questions returns "Tell me more about t" for the
\* first min(3, n) of the n topics, then the three generic questions in fixed
\* order, truncated to 5: min(5, min(3, n) + 3) questions, never more than 5.
C8_TopicsAreWordsLongerThanFourCharacters ==
    ret.op = "generate_suggested_questions" =>
        /\ ret.topics = Take(LongByChars(ret.words), 5)
        /\ ret.result = Ok(QuestionsFor(ret.topics))
        /\ Len(ret.result.val) = Min(5, Min(3, Len(ret.topics)) + 3)
        /\ Len(ret.result.val) <= 5

\* What a chat call is said to depend on: the provider, the model name and the
\* content of the last message, if there is one.
ChatKey(e) ==
    <<e.provider, e.model_name,
      IF e.messages = <<>> THEN NoneVal ELSE Some(Last(e.messages).content)>>

ChatResponses == {i \in 1..Len(log) : log[i].op = "chat" /\ log[i].result.ok}

\* C9: two chat calls that return a response for the same provider, model name
\* and last message content return the same content, reasoning, suggested
\* questions, model_provider, model_name and tokens_used, which is 150, whatever
\* their user memory, files and earlier messages are; their message_id differs.
C9_ChatIsDeterministic ==
    \A i, j \in ChatResponses :
        LET a == log[i].result.val
            b == log[j].result.val
        IN  /\ a.tokens_used = Some(150)
            /\ (i # j) => a.message_id # b.message_id
            /\ ChatKey(log[i]) = ChatKey(log[j]) =>
                 [a EXCEPT !.message_id = 0] = [b EXCEPT !.message_id = 0]

\* Two responses for the same provider, model name and last content, to calls
\* that differ in user memory, in files and in the earlier messages.
C9_Witness ==
    \E i, j \in ChatResponses :
        /\ ChatKey(log[i]) = ChatKey(log[j])
        /\ log[i].user_memory # log[j].user_memory
        /\ log[i].files # log[j].files
        /\ Len(log[i].messages) # Len(log[j].messages)

ModelCalls == {i \in 1..Len(log) : log[i].op = "get_available_models"}

\* C10: every get_available_models call returns Ok with a non-empty list, and
\* two calls for the same provider return the same list, whether or not the
\* provider has a client and whatever the store holds.
C10_ModelListsAreFixed ==
    \A i, j \in ModelCalls :
        /\ log[i].result.ok
        /\ log[i].result.val # <<>>
        /\ log[i].provider = log[j].provider => log[i].result = log[j].result

\* Two calls for OpenAI, one when it had no API key and the store was empty, one
\* when it had a key and a session was stored.
C10_Witness ==
    \E i, j \in ModelCalls :
        /\ log[i].provider = "OpenAI" /\ log[j].provider = "OpenAI"
        /\ ~log[i].available /\ log[j].available
        /\ log[i].sessions = 0 /\ log[j].sessions > 0

\* The last send_message of the chat box returned a response and was sent for
\* the session that is current.
SendCompleted ==
    /\ ui.send_value.some
    /\ ui.send_value.val.ok
    /\ ui.current_session = Some(ui.send_session)

\* The questions of that response are among those the chat box shows.
ReplyQuestionsShown ==
    Range(ui.send_value.val.val.suggested_questions)
        \subseteq {ui.suggested_questions[i].question :
                       i \in 1..Len(ui.suggested_questions)}

\* C7: once a send_message of the chat box on the current session has returned
\* a response, the suggested questions shown come to hold the questions of that
\* response: they hold them when no request of the chat box is left that could
\* still bring them.
C7_ShownQuestionsFollowTheReply ==
    (SendCompleted /\ tasks = <<>>) => ReplyQuestionsShown

\* C11: nobody ever holds the write lock of clients and clients never changes;
\* every chat call that awaits the lock can take it at once, whichever calls
\* hold it, so none waits for another and none is stuck.
C11_ReadLockNeverBlocks ==
    /\ [](clientsLock.writers = {})
    /\ [](\A c \in ChatTaskIds : chatPc[c].pc = "waiting" => ENABLED ChatAcquire(c))
    /\ [][clients' = clients]_vars

\* Two chat calls hold the lock at once.
C11_Witness ==
    /\ Cardinality(clientsLock.readers) >= 2
    /\ \E c, d \in ChatTaskIds :
         /\ chatPc[c].pc = "holding" /\ chatPc[d].pc = "holding"
         /\ chatPc[c].provider \in clients /\ chatPc[d].provider \notin clients

StartsWith(s, prefix) == Len(s) >= Len(prefix) /\ SubSeq(s, 1, Len(prefix)) = prefix

\* The block C12 says a file gets: by the kind of its content type.
ClaimedBlock(file) ==
    IF StartsWith(file.content_type, <<"i","m","a","g","e","/">>)
    THEN <<"\n","\n">> \o <<"[","I","m","a","g","e",":"," ">> \o file.name \o <<"]","\n">>
         \o <<"d","a","t","a",":","i","m","a","g","e","/">>
         \o SubSeq(file.content_type, 7, Len(file.content_type))
         \o <<";","b","a","s","e","6","4",",">> \o Base64Encode(file.data) \o <<"\n">>
    ELSE IF StartsWith(file.content_type, <<"t","e","x","t","/">>)
    THEN <<"\n","\n">> \o <<"[","T","e","x","t"," ","f","r","o","m"," ">> \o file.name
         \o <<"]","\n">> \o Utf8Decode(file.data).text
    ELSE IF file.content_type = <<"a","p","p","l","i","c","a","t","i","o","n","/","p","d","f">>
    THEN <<"\n","\n">> \o <<"[","P","D","F"," ","C","o","n","t","e","n","t"," ","f","r","o","m"," ">>
         \o file.name \o <<"]","\n">> \o ExtractPdfText(file.data).text
    ELSE <<"\n","\n">> \o <<"[","F","i","l","e",":"," ">> \o file.name \o <<" ","-"," ">>
         \o file.content_type \o <<"]","\n">>

RECURSIVE ClaimedBlocks(_)
ClaimedBlocks(files) ==
    IF files = <<>> THEN <<>> ELSE ClaimedBlock(Head(files)) \o ClaimedBlocks(Tail(files))

\* C12: build_content_with_files returns the message content followed by one
\* block per file, in order: "[Image: name]" and a base64 data URI for a file of
\* type image/<subtype>, "[Text from name]" and the text for text/<subtype>,
\* "[PDF Content from name]" and the extractor's text for application/pdf,
\* "[File: name - type]" for any other type.
C12_BlocksFollowTheContentType ==
    ret.op = "build_content_with_files" =>
        ret.result = Ok(ret.content \o ClaimedBlocks(ret.files))

\* C13: a chat call fails exactly when its provider has no entry in clients,
\* and then with 'Provider not available', without a response and with no
\* change of the state; OpenAI, Anthropic, Gemini and OpenRouter have an entry
\* iff the configuration holds their API key, and Ollama always has one.
C13_ChatFailsIffProviderIsMissing ==
    [][Len(log') = Len(log) + 1 =>
         LET e == log'[Len(log')]
         IN  /\ ~e.result.ok <=> e.provider \notin clients
             /\ e.provider \in clients <=> (e.provider = "Ollama" \/ e.provider \in config)
             /\ "Ollama" \in clients
             /\ ~e.result.ok =>
                  /\ e.result = [ok |-> FALSE, err |-> "Provider not available"]
                  /\ UNCHANGED <<dbVars, clients, config, now, nextId, ret, lastChat,
                                 createdWith, savedLog, ui, tasks>>]_vars

\* chat failed for Anthropic when the server had no key for it, and returned a
\* response when it had one.
C13_Witness ==
    \E i, j \in 1..Len(log) :
        /\ log[i].provider = "Anthropic" /\ log[j].provider = "Anthropic"
        /\ ~log[i].result.ok /\ log[j].result.ok
        /\ "Anthropic" \in config /\ "OpenAI" \notin config

\* The create_session requests of the chat box that are not finished.
PendingCreates == {i \in 1..Len(tasks) : tasks[i].kind = "create_session"}

\* C14: once every create_session request of the chat box has completed, the
\* current session is a session created for the provider and model name
\* selected last.
C14_CurrentSessionHasTheSelectedModel ==
    (ui.mounted /\ PendingCreates = {}) =>
        /\ ui.current_session.some
        /\ \E s \in chat_sessions :
             /\ s.id = ui.current_session.val
             /\ s.model_provider = AIProviderToString(ui.selected_model)
             /\ s.model_name = ui.selected_model_name

\* The get_chat_history requests of the chat box that are not finished.
PendingHistories == {i \in 1..Len(tasks) : tasks[i].kind = "get_chat_history"}

\* C15: once every get_chat_history request of the chat box has completed, the
\* messages shown are messages of the current session, none of a session that
\* was current before.
C15_ShownMessagesAreOfTheCurrentSession ==
    (ui.current_session.some /\ PendingHistories = {} /\ PendingCreates = {}) =>
        \A i \in 1..Len(ui.messages) :
            ui.messages[i].session_id = ui.current_session.val

\* C16: the selected model name is one of the models get_available_models
\* returns for the selected provider, after every selection in the switcher.
C16_SelectedModelIsOfTheSelectedProvider ==
    LET models == ApiGetAvailableModels(ui.selected_model)
    IN  /\ models.ok
        /\ \E i \in 1..Len(models.val) : models.val[i] = ui.selected_model_name

\* The rows of assistant messages of a session that carry the fields of a reply.
RepliesStored(rows, session_id, response) ==
    {x \in rows :
        /\ x.session_id = session_id
        /\ x.role = MessageRoleToString("Assistant")
        /\ x.id = response.message_id
        /\ x.content = response.content
        /\ x.reasoning = response.reasoning
        /\ x.model_provider = Some(response.model_provider)
        /\ x.model_name = Some(response.model_name)
        /\ x.tokens_used = response.tokens_used}

\* C17: a successful send_message(s, m) leaves exactly one assistant message of
\* s with the id of the returned response, and it carries the response's
\* content, reasoning, provider, model name and tokens; and the call adds
\* exactly one user message to s, with the content m.
C17_SendStoresTheMessageAndTheReply ==
    [][(ret'.op = "send_message" /\ ret'.result.ok /\ messages' # messages) =>
        LET s == ret'.session_id
            response == ret'.result.val
        IN  /\ Cardinality({x \in messages' : x.id = response.message_id}) = 1
            /\ Cardinality(RepliesStored(messages', s, response)) = 1
            /\ Cardinality({x \in messages' \ messages :
                               x.session_id = s /\ x.role = MessageRoleToString("User")}) = 1
            /\ \A x \in messages' \ messages :
                   x.role = MessageRoleToString("User") => x.content = ret'.message]_vars

\* A second message was sent to a session and answered.
C17_Witness ==
    /\ ret.op = "send_message"
    /\ ret.result.ok
    /\ RepliesStored(messages, ret.session_id, ret.result.val) # {}
    /\ Cardinality({x \in messages : x.session_id = ret.session_id}) = 4

\* The unused questions stored for a session.
UnusedOf(session_id) ==
    {q \in suggested_questions : q.session_id = session_id /\ ~q.used}

\* A result of get_suggested_questions(s) is a list of at most 5 unused
\* questions of s, by non-increasing relevance and newest first among equals,
\* that leaves out no unused question more relevant than one it holds.
IsSuggestionList(session_id, qs) ==
    /\ Len(qs) <= 5
    /\ \A i \in 1..Len(qs) : qs[i] \in UnusedOf(session_id)
    /\ \A i, j \in 1..Len(qs) :
          i < j => \/ qs[i].relevance_score > qs[j].relevance_score
                   \/ /\ qs[i].relevance_score = qs[j].relevance_score
                      /\ qs[i].created_at >= qs[j].created_at
    /\ \A q \in UnusedOf(session_id) \ Range(qs) :
          \A i \in 1..Len(qs) : q.relevance_score <= qs[i].relevance_score

\* The questions of one reply are stored unused, the i-th (from 0) with the
\* relevance 1.0 - 0.1 * i, in tenths.
IsReplyQuestions(rows, questions) ==
    /\ Cardinality(rows) = Len(questions)
    /\ \A q \in rows : ~q.used
    /\ \E f \in [1..Len(questions) -> rows] :
          /\ \A i \in 1..Len(questions) :
                /\ f[i].question = questions[i]
                /\ f[i].relevance_score = 10 - (i - 1)
          /\ \A i, j \in 1..Len(questions) :
                i < j => f[i].relevance_score > f[j].relevance_score

\* C18: get_suggested_questions(s) returns at most 5 questions, each stored for
\* s and unused, by non-increasing relevance with ties newest first, leaving out
\* no unused question of s more relevant than a returned one; and the questions
\* of one reply are stored unused with the relevances 1.0, 0.9, 0.8, ... by
\* position.
C18_SuggestionsAreTheMostRelevantUnused ==
    /\ [](\A s \in SessionIds : \A r \in GetSuggestedQuestions(s) :
            r.ok /\ IsSuggestionList(s, r.val))
    /\ [][(ret'.op = "send_message" /\ ret'.result.ok /\ messages' # messages) =>
            IsReplyQuestions(suggested_questions' \ suggested_questions,
                             ret'.result.val.suggested_questions)]_vars

\* A session holds the questions of two replies, one of them used, and its
\* five suggestions begin with two equally relevant ones.
C18_Witness ==
    \E s \in SessionIds :
        /\ Cardinality(UnusedOf(s)) > 5
        /\ \E q \in suggested_questions : q.session_id = s /\ q.used
        /\ \E r \in GetSuggestedQuestions(s) :
              /\ Len(r.val) = 5
              /\ r.val[1].relevance_score = r.val[2].relevance_score
              /\ r.val[1].created_at > r.val[2].created_at

\* The ids for which a mark_question_used call has completed.
Marked == {log[i].question_id : i \in {j \in 1..Len(log) : log[j].op = "mark_question_used"}}

\* C19: a question marked used is returned by no later get_suggested_questions
\* and no operation makes a used question unused; mark_question_used succeeds,
\* changes no question other than the one named, changes nothing when that one
\* is used already or does not exist.
C19_MarkingIsPermanent ==
    /\ [](\A s \in SessionIds : \A r \in GetSuggestedQuestions(s) :
            \A i \in 1..Len(r.val) : r.val[i].id \notin Marked)
    /\ [][\A q \in suggested_questions :
            q.used => \E x \in suggested_questions' : x.id = q.id /\ x.used]_vars
    /\ [][Len(log') = Len(log) + 1 =>
            LET id == log'[Len(log')].question_id
                named == {q \in suggested_questions : q.id = id}
            IN  /\ log'[Len(log')].result.ok
                /\ \A q \in suggested_questions' : q.id = id => q.used
                /\ suggested_questions \ named \subseteq suggested_questions'
                /\ Cardinality(suggested_questions') = Cardinality(suggested_questions)
                /\ (\A q \in named : q.used) =>
                       suggested_questions' = suggested_questions]_vars

\* A question was marked twice, and its session still has suggestions.
C19_Witness ==
    /\ Len(log) = 2
    /\ log[1].question_id = log[2].question_id
    /\ \E q \in suggested_questions :
          /\ q.id = log[1].question_id
          /\ q.used
          /\ \E r \in GetSuggestedQuestions(q.session_id) : Len(r.val) > 0

\* The role names of the provider's format.
ProviderRole(role) ==
    CASE role = "User" -> <<"u","s","e","r">>
      [] role = "Assistant" -> <<"a","s","s","i","s","t","a","n","t">>
      [] role = "System" -> <<"s","y","s","t","e","m">>

\* The chat calls of the log that got as far as formatting the conversation.
FormattedCalls == {i \in 1..Len(log) : log[i].op = "chat" /\ log[i].result.ok}

\* C20: the conversation chat formats is one system entry holding the system
\* prompt, then one entry per input message in the input order with the role
\* mapped one to one; an entry holds the content of its message, followed by
\* the blocks of the attached files when the message is a user message.
C20_ConversationFollowsTheMessages ==
    \A c \in FormattedCalls :
        LET formatted == log[c].formatted
            msgs == log[c].messages
            blocks == BuildContentWithFiles(<<>>, log[c].files)
        IN  /\ Len(formatted) = Len(msgs) + 1
            /\ formatted[1] = [role |-> ProviderRole("System"),
                               content |-> BuildSystemPrompt(log[c].user_memory)]
            /\ log[c].files # <<>> => blocks # <<>>
            /\ \A i \in 1..Len(msgs) :
                  /\ formatted[i + 1].role = ProviderRole(msgs[i].role)
                  /\ formatted[i + 1].content =
                         IF msgs[i].role = "User" THEN msgs[i].content \o blocks
                                                 ELSE msgs[i].content

\* A chat with a file attached formatted a system message, two user messages
\* and a reply.
C20_Witness ==
    \E c \in FormattedCalls :
        /\ log[c].files # <<>>
        /\ \E i, j, k \in 1..Len(log[c].messages) :
              /\ i < j /\ j < k
              /\ log[c].messages[i].role = "User"
              /\ log[c].messages[j].role = "Assistant"
              /\ log[c].messages[k].role = "User"
              /\ \E h \in 1..Len(log[c].messages) : log[c].messages[h].role = "System"
              /\ log[c].formatted[i + 1].content # log[c].messages[i].content

\* The rows are the records of the files: one row per file, in some order,
\* with the name, the content type and the number of bytes of the file.
AreRecordsOf(rows, files) ==
    /\ Cardinality(rows) = Len(files)
    /\ \E f \in [1..Len(files) -> rows] :
          /\ \A i, j \in 1..Len(files) : i # j => f[i] # f[j]
          /\ \A i \in 1..Len(files) :
                /\ f[i].file_name = files[i].name
                /\ f[i].file_type = files[i].content_type
                /\ f[i].file_size = Len(files[i].data)

\* C21: a send_message call with n files that gets past the session lookup
\* stores exactly n attachment records, all linked to the user message the
\* call created, which is one message, with the name, content type and byte
\* length of the files; a call with no files stores none.
C21_AttachmentsFollowTheFiles ==
    [][(ret'.op = "send_message" /\ messages' # messages) =>
        LET stored == file_attachments' \ file_attachments
            created == {m \in messages' \ messages :
                          m.role = MessageRoleToString("User")}
        IN  /\ file_attachments \subseteq file_attachments'
            /\ AreRecordsOf(stored, ret'.files)
            /\ ret'.files = <<>> => stored = {}
            /\ Cardinality(created) = 1
            /\ \A a \in stored :
                  /\ \A m \in created : a.message_id = m.id
                  /\ Cardinality({m \in messages' : m.id = a.message_id}) = 1]_vars

\* A call carried the same file twice, and its user message has two
\* attachments of that name.
C21_Witness ==
    /\ ret.op = "send_message"
    /\ Len(ret.files) = 2
    /\ ret.files[1] = ret.files[2]
    /\ \E m \in messages :
          /\ m.session_id = ret.session_id
          /\ m.role = MessageRoleToString("User")
          /\ Cardinality(DbGetMessageAttachments(m.id)) = 2
          /\ \A a \in DbGetMessageAttachments(m.id) : a.file_name = ret.files[1].name

\* The messages create_message was called with.
CreatedMessages ==
    {log[i].message : i \in {j \in 1..Len(log) : log[j].op = "create_message"}}

\* The roles whose string a row holds.
RolesWritten(role_string) == {r \in MessageRoles : MessageRoleToString(r) = role_string}

\* C22: a message read back by get_session_messages has the role it was
\* created with, whatever the role; a row whose role string is the string of
\* a role is read as that role, and a row with any other string as User.
C22_RolesSurviveStorage ==
    /\ \A m \in CreatedMessages :
          \A msgs \in DbGetSessionMessages(m.session_id) :
              \E i \in 1..Len(msgs) : msgs[i].id = m.id /\ msgs[i].role = m.role
    /\ ret.op = "row_to_message" =>
          /\ \A r \in RolesWritten(ret.row.role) : ret.result.role = r
          /\ RolesWritten(ret.row.role) = {} => ret.result.role = "User"

\* An assistant and a system message were created, and a row with a string
\* that is no role's was read.
C22_Witness ==
    /\ \E m \in CreatedMessages : m.role = "Assistant"
    /\ \E m \in CreatedMessages : m.role = "System"
    /\ ret.op = "row_to_message"
    /\ RolesWritten(ret.row.role) = {}
    /\ ret.row.role # <<>>

====
